---- MODULE Spec2Model ----
(***************************************************************************)
(* A model of the Matomo tracking client (class MatomoTracker).  The       *)
(* repository holds two implementations of the client:                     *)
(*   "port" : src/index.ts      (assert based, track accepts a string)     *)
(*   "sdk"  : src/src/index.ts  (tiny-invariant based, track / trackUrl /  *)
(*                               trackEvent / trackContent / trackBulk)    *)
(* Strings are TLA+ strings, read character by character with Head, Tail   *)
(* and SubSeq.  JavaScript values are tagged records whose field t is the  *)
(* result of typeof.                                                       *)
(***************************************************************************)
EXTENDS Integers, Sequences, FiniteSets

VARIABLES impl, args, tracker, ctorError, listeners, calls

vars == <<impl, args, tracker, ctorError, listeners, calls>>

(***************************************************************************)
(* Bounds of the model.                                                    *)
(***************************************************************************)
MaxCalls == 1
MaxItems == 2

(***************************************************************************)
(* String helpers.                                                         *)
(***************************************************************************)
CharAt(s, i) == SubSeq(s, i, i)

EndsWith(s, suffix) ==
  /\ Len(s) >= Len(suffix)
  /\ SubSeq(s, Len(s) - Len(suffix) + 1, Len(s)) = suffix

StartsWith(s, prefix) ==
  /\ Len(s) >= Len(prefix)
  /\ SubSeq(s, 1, Len(prefix)) = prefix

Contains(s, sub) ==
  \E i \in 1..(Len(s) - Len(sub) + 1) : SubSeq(s, i, i + Len(sub) - 1) = sub

RECURSIVE IndexFrom(_, _, _)
IndexFrom(s, c, i) ==
  IF i > Len(s) THEN 0
  ELSE IF CharAt(s, i) = c THEN i
  ELSE IndexFrom(s, c, i + 1)

\* Position of the first occurrence of the one-character string c in s, 0 if none.
IndexOf(s, c) == IndexFrom(s, c, 1)

(***************************************************************************)
(* JavaScript numbers: NaN, or the finite decimal num / den where den is a *)
(* power of ten and the fraction is in lowest decimal form.                *)
(***************************************************************************)
NaN == [nan |-> TRUE, num |-> 0, den |-> 1]

RECURSIVE Decimal(_, _)
Decimal(n, d) ==
  IF d > 1 /\ n % 10 = 0 THEN Decimal(n \div 10, d \div 10)
  ELSE [nan |-> FALSE, num |-> n, den |-> d]

Int2Num(n) == Decimal(n, 1)

IsPositiveInteger(x) == ~x.nan /\ x.den = 1 /\ x.num > 0

Digits == <<"0", "1", "2", "3", "4", "5", "6", "7", "8", "9">>

IsDigit(c) == \E i \in 1..10 : Digits[i] = c

DigitVal(c) == (CHOOSE i \in 1..10 : Digits[i] = c) - 1

AllDigits(s) == \A i \in 1..Len(s) : IsDigit(CharAt(s, i))

RECURSIVE DigitsValue(_, _)
DigitsValue(s, acc) ==
  IF s = "" THEN acc ELSE DigitsValue(Tail(s), acc * 10 + DigitVal(Head(s)))

RECURSIVE Pow10(_)
Pow10(k) == IF k = 0 THEN 1 ELSE 10 * Pow10(k - 1)

RECURSIVE TrimLeft(_)
TrimLeft(s) == IF s # "" /\ Head(s) = " " THEN TrimLeft(Tail(s)) ELSE s

RECURSIVE TrimRight(_)
TrimRight(s) ==
  IF s # "" /\ CharAt(s, Len(s)) = " "
    THEN TrimRight(SubSeq(s, 1, Len(s) - 1))
    ELSE s

\* An unsigned decimal literal: digits, digits "." digits?, or "." digits.
UnsignedToNumber(s) ==
  LET dot == IndexOf(s, ".")
      ip  == IF dot = 0 THEN s ELSE SubSeq(s, 1, dot - 1)
      fp  == IF dot = 0 THEN "" ELSE SubSeq(s, dot + 1, Len(s))
  IN  IF (ip = "" /\ fp = "") \/ ~AllDigits(ip) \/ ~AllDigits(fp) THEN NaN
      ELSE Decimal(DigitsValue(ip, 0) * Pow10(Len(fp)) + DigitsValue(fp, 0),
                   Pow10(Len(fp)))

\* Number(s) for a string s: white space is trimmed, the empty string is 0,
\* a signed decimal literal is its value, and any other text is NaN.
StringToNumber(s) ==
  LET t    == TrimRight(TrimLeft(s))
      sign == IF t # "" /\ Head(t) \in {"+", "-"} THEN Head(t) ELSE ""
      body == IF sign = "" THEN t ELSE Tail(t)
      u    == UnsignedToNumber(body)
  IN  IF t = "" THEN Int2Num(0)
      ELSE IF u.nan THEN NaN
      ELSE IF sign = "-" THEN [u EXCEPT !.num = 0 - u.num]
      ELSE u

RECURSIVE NatToString(_)
NatToString(n) ==
  IF n < 10 THEN Digits[n + 1]
  ELSE NatToString(n \div 10) \o Digits[(n % 10) + 1]

RECURSIVE FractionDigits(_, _)
FractionDigits(r, d) ==
  IF d = 1 THEN ""
  ELSE Digits[(r \div (d \div 10)) + 1] \o FractionDigits(r % (d \div 10), d \div 10)

\* String(x) for a number x.
NumberToString(x) ==
  IF x.nan THEN "NaN"
  ELSE LET a == IF x.num < 0 THEN 0 - x.num ELSE x.num
       IN  (IF x.num < 0 THEN "-" ELSE "")
             \o NatToString(a \div x.den)
             \o (IF x.den = 1 THEN "" ELSE "." \o FractionDigits(a % x.den, x.den))

(***************************************************************************)
(* JavaScript values.                                                      *)
(***************************************************************************)
Undefined == [t |-> "undefined"]
Null      == [t |-> "object", k |-> "null"]
Fn        == [t |-> "function"]
Bool(b)   == [t |-> "boolean", b |-> b]
Num(x)    == [t |-> "number", n |-> x]
Str(s)    == [t |-> "string", s |-> s]
\* An object: its own enumerable properties, in insertion order.
Obj(props) == [t |-> "object", k |-> "object", props |-> props]
Arr(items) == [t |-> "object", k |-> "array", items |-> items]
Prop(key, value) == [k |-> key, v |-> value]

TypeOf(v) == v.t

IsNull(v) == v.t = "object" /\ v.k = "null"
IsObj(v)  == v.t = "object" /\ v.k = "object"
IsArr(v)  == v.t = "object" /\ v.k = "array"

Truthy(v) ==
  CASE v.t = "undefined" -> FALSE
    [] v.t = "boolean"   -> v.b
    [] v.t = "number"    -> ~v.n.nan /\ v.n.num # 0
    [] v.t = "string"    -> v.s # ""
    [] v.t = "object"    -> ~IsNull(v)
    [] OTHER             -> TRUE

\* Number(v), for the types the constructor lets through.
ToNumber(v) ==
  CASE v.t = "number" -> v.n
    [] v.t = "string" -> StringToNumber(v.s)
    [] OTHER          -> NaN

\* String(v).
JsString(v) ==
  CASE v.t = "string"    -> v.s
    [] v.t = "number"    -> NumberToString(v.n)
    [] v.t = "undefined" -> "undefined"
    [] v.t = "boolean"   -> IF v.b THEN "true" ELSE "false"
    [] IsNull(v)         -> "null"
    [] OTHER             -> "[object Object]"

(***************************************************************************)
(* Errors thrown by the client.                                            *)
(***************************************************************************)
Error(name, message) == [name |-> name, message |-> message]
NoError == Error("", "")

MsgSiteId == "Matomo siteId required."
MsgTrackerUrl == "Matomo tracker URL required, e.g. http://example.com/matomo.php"
MsgSuffix == "A tracker URL must end with \"matomo.php\" or \"piwik.php\""
MsgUrl == "URL to be tracked must be specified."
MsgEvent == "Event category and action must be specified."
MsgContent == "Content name and piece must be specified."
MsgEvents == "Events require at least one."

Impls == {"port", "sdk"}

\* The error of a failed check: assert.ok / assert.fail in the port,
\* invariant() of tiny-invariant (development build) in the sdk.
CheckFailed(i, message) ==
  IF i = "port" THEN Error("AssertionError", message)
  ELSE Error("Error", "Invariant failed: " \o message)

(***************************************************************************)
(* The constructor.                                                        *)
(***************************************************************************)
NoTracker == [made |-> FALSE]
NoArgs == [given |-> FALSE]
CtorArgs(siteId, trackerUrl, noURLValidation) ==
  [given |-> TRUE, siteId |-> siteId, trackerUrl |-> trackerUrl,
   noURLValidation |-> noURLValidation]

SiteIdOkAnyType(siteId) == Truthy(siteId)

SiteIdOk(siteId) ==
  Truthy(siteId) /\ (TypeOf(siteId) = "number" \/ TypeOf(siteId) = "string")

TrackerUrlOk(trackerUrl) ==
  Truthy(trackerUrl) /\ TypeOf(trackerUrl) = "string"

SuffixOkMatomoOnly(trackerUrl) == EndsWith(trackerUrl.s, "matomo.php")

SuffixOk(trackerUrl) ==
  EndsWith(trackerUrl.s, "matomo.php") \/ EndsWith(trackerUrl.s, "piwik.php")

StoredSiteIdRaw(siteId) == siteId

StoredSiteId(siteId) == ToNumber(siteId)

\* new MatomoTracker(siteId, trackerUrl, noURLValidation): the tracker made,
\* or the error thrown.
Construct(i, a) ==
  IF ~SiteIdOk(a.siteId)
    THEN [ok |-> FALSE, error |-> CheckFailed(i, MsgSiteId), tracker |-> NoTracker]
  ELSE IF ~TrackerUrlOk(a.trackerUrl)
    THEN [ok |-> FALSE, error |-> CheckFailed(i, MsgTrackerUrl), tracker |-> NoTracker]
  ELSE IF ~Truthy(a.noURLValidation) /\ ~SuffixOk(a.trackerUrl)
    THEN [ok |-> FALSE, error |-> CheckFailed(i, MsgSuffix), tracker |-> NoTracker]
  ELSE [ok |-> TRUE, error |-> NoError,
        tracker |-> [made |-> TRUE,
                     siteId |-> StoredSiteId(a.siteId),
                     trackerUrl |-> a.trackerUrl.s,
                     usesHTTPS |-> i = "port" /\ StartsWith(a.trackerUrl.s, "https")]]

\* Arguments the constructor is tried with.
SiteIdArgs ==
  { Undefined, Null, Bool(TRUE), Bool(FALSE), Fn,
    Obj(<<Prop("foo", Str("bar"))>>),
    Arr(<<Num(Int2Num(1)), Num(Int2Num(2)), Num(Int2Num(3))>>),
    Num(Int2Num(0)), Num(Int2Num(1)), Num(Int2Num(42)), Num(Int2Num(0 - 1)),
    Num(Decimal(15, 10)), Num(NaN),
    Str(""), Str("1"), Str("42"), Str("siteId"), Str(" "), Str("-3"),
    Str("2.5"), Str(" 7 "), Str("0") }

TrackerUrlArgs ==
  { Undefined, Null, Str(""), Num(Int2Num(1)), Bool(TRUE),
    Obj(<<>>),
    Str("http://example.com/matomo.php"),
    Str("https://example.com/piwik.php"),
    Str("http://example.com/index.php"),
    Str("matomo.php"),
    Str("http://example.com/matomo.php?x"),
    Str("atomo.php") }

FlagArgs == { Undefined, Bool(TRUE), Bool(FALSE), Num(Int2Num(1)), Str("") }

InitNew ==
  /\ impl \in Impls
  /\ args = NoArgs
  /\ tracker = NoTracker
  /\ ctorError = NoError
  /\ listeners = <<>>
  /\ calls = <<>>

New(siteId, trackerUrl, noURLValidation) ==
  /\ ~args.given
  /\ LET a == CtorArgs(siteId, trackerUrl, noURLValidation)
         r == Construct(impl, a)
     IN  /\ args' = a
         /\ tracker' = r.tracker
         /\ ctorError' = r.error
  /\ UNCHANGED <<impl, listeners, calls>>

NextNew ==
  \E siteId \in SiteIdArgs, trackerUrl \in TrackerUrlArgs, flag \in FlagArgs :
    New(siteId, trackerUrl, flag)

SpecNew == InitNew /\ [][NextNew]_vars

(***************************************************************************)
(* Option mappings (MatomoTrackOptions): property access and assignment.   *)
(***************************************************************************)
HasProp(o, key) == IsObj(o) /\ \E i \in 1..Len(o.props) : o.props[i].k = key

\* o[key]: undefined for a missing property and for a primitive.
GetProp(o, key) ==
  IF HasProp(o, key)
    THEN o.props[CHOOSE i \in 1..Len(o.props) : o.props[i].k = key].v
    ELSE Undefined

\* o[key] = value: an existing property keeps its place, a new one is appended.
SetProp(o, key, value) ==
  IF HasProp(o, key)
    THEN Obj([i \in 1..Len(o.props) |->
                IF o.props[i].k = key THEN Prop(key, value) ELSE o.props[i]])
    ELSE Obj(Append(o.props, Prop(key, value)))

InjectBaseKeepCaller(options, siteId) ==
  LET a == IF HasProp(options, "idsite") THEN options
           ELSE SetProp(options, "idsite", Num(siteId))
  IN  IF HasProp(a, "rec") THEN a ELSE SetProp(a, "rec", Num(Int2Num(1)))

\* options.idsite = this.siteId; options.rec = 1;
InjectBase(options, siteId) ==
  SetProp(SetProp(options, "idsite", Num(siteId)), "rec", Num(Int2Num(1)))

\* { ca: 1, ...options }: the caller's ca wins.
WithCustomActionFirst(options) ==
  Obj(<<Prop("ca", IF HasProp(options, "ca") THEN GetProp(options, "ca")
                   ELSE Num(Int2Num(1)))>>
        \o SelectSeq(options.props, LAMBDA p : p.k # "ca"))

\* { ...options, ca: 1 }
WithCustomAction(options) == SetProp(Obj(options.props), "ca", Num(Int2Num(1)))

(***************************************************************************)
(* Serialization.                                                          *)
(***************************************************************************)
RECURSIVE StringifyAll(_)
StringifyAll(props) ==
  IF props = <<>> THEN <<>>
  ELSE <<Prop(Head(props).k, JsString(Head(props).v))>> \o StringifyAll(Tail(props))

RECURSIVE DefinedProps(_)
DefinedProps(props) ==
  IF props = <<>> THEN <<>>
  ELSE (IF Head(props).v # Undefined THEN <<Head(props)>> ELSE <<>>)
         \o DefinedProps(Tail(props))

optionValuesToStringUnfiltered(options) == StringifyAll(options.props)

\* The entries whose value is not undefined, each value converted with String().
optionValuesToString(options) == StringifyAll(DefinedProps(options.props))

\* The characters of the model's alphabet that application/x-www-form-urlencoded
\* escapes, with their escapes.  Letters, digits and * - . _ are kept, a space
\* becomes "+".
Escapes ==
  << <<":", "%3A">>, <<"/", "%2F">>, <<"&", "%26">>, <<"=", "%3D">>,
     <<"?", "%3F">>, <<"%", "%25">>, <<"+", "%2B">>, <<"#", "%23">>,
     <<"\"", "%22">>, <<",", "%2C">>, <<"'", "%27">> >>

EncodeChar(c) ==
  IF c = " " THEN "+"
  ELSE IF \E i \in 1..Len(Escapes) : Escapes[i][1] = c
    THEN Escapes[CHOOSE i \in 1..Len(Escapes) : Escapes[i][1] = c][2]
  ELSE c

FormEncodeRaw(s) == s

RECURSIVE FormEncode(_)
FormEncode(s) ==
  IF s = "" THEN "" ELSE EncodeChar(Head(s)) \o FormEncode(Tail(s))

\* new URLSearchParams(record).toString()
RECURSIVE URLSearchParams(_)
URLSearchParams(entries) ==
  IF entries = <<>> THEN ""
  ELSE FormEncode(Head(entries).k) \o "=" \o FormEncode(Head(entries).v)
         \o (IF Len(entries) > 1 THEN "&" ELSE "")
         \o URLSearchParams(Tail(entries))

QueryString(options) == URLSearchParams(optionValuesToString(options))

RECURSIVE JoinQuoted(_)
JoinQuoted(strs) ==
  IF strs = <<>> THEN ""
  ELSE "\"" \o Head(strs) \o "\"" \o (IF Len(strs) > 1 THEN "," ELSE "")
         \o JoinQuoted(Tail(strs))

\* The fragments collected in reverse.
BulkBodyReversed(fragments) ==
  "{\"requests\":["
    \o JoinQuoted([n \in 1..Len(fragments) |-> fragments[Len(fragments) + 1 - n]])
    \o "]}"

\* JSON.stringify({ requests: fragments }); the fragments are form-encoded,
\* so none holds a character JSON escapes.
BulkBody(fragments) == "{\"requests\":[" \o JoinQuoted(fragments) \o "]}"

(***************************************************************************)
(* Requests handed to fetch.                                               *)
(***************************************************************************)
GetRequest(url) ==
  [method |-> "GET", url |-> url, contentType |-> "", body |-> ""]

PostRequest(url, body) ==
  [method |-> "POST", url |-> url, contentType |-> "application/json", body |-> body]

(***************************************************************************)
(* The synchronous part of each operation, up to the call of fetch: the    *)
(* error it rejects with, or the request it hands to fetch, and the        *)
(* caller's argument as the operation leaves it.                           *)
(***************************************************************************)
Rejected(error, arg) ==
  [rejected |-> TRUE, error |-> error, arg |-> arg, sent |-> <<>>,
   options |-> <<>>]

\* options: the mappings the operation serialized, in order.
Dispatched(request, arg, options) ==
  [rejected |-> FALSE, error |-> NoError, arg |-> arg, sent |-> <<request>>,
   options |-> options]

\* What strict-mode code throws on options.idsite = ... when options is no object.
AssignError(options) ==
  IF options.t = "undefined" \/ IsNull(options)
    THEN Error("TypeError",
               "Cannot set properties of " \o JsString(options) \o " (setting 'idsite')")
    ELSE Error("TypeError",
               "Cannot create property 'idsite' on " \o options.t \o " '"
                 \o JsString(options) \o "'")

\* The body of track from the assignments of idsite and rec on.
SendTrack(t, options) ==
  LET o == InjectBase(options, t.siteId)
  IN  Dispatched(GetRequest(t.trackerUrl \o "?" \o QueryString(o)), o, <<o>>)

\* src/src/index.ts: track(options)
TrackSdk(t, options) ==
  IF ~IsObj(options) THEN Rejected(AssignError(options), options)
  ELSE SendTrack(t, options)

\* src/index.ts: track(options)
TrackPort(t, arg) ==
  LET options == IF TypeOf(arg) = "string" THEN Obj(<<Prop("url", arg)>>) ELSE arg
  IN  IF ~Truthy(options) \/ ~Truthy(GetProp(options, "url"))
        THEN Rejected(CheckFailed("port", MsgUrl), arg)
        ELSE LET r == SendTrack(t, options)
             IN  IF TypeOf(arg) = "string" THEN [r EXCEPT !.arg = arg] ELSE r

\* src/src/index.ts: trackUrl(options)
TrackUrlSdk(t, arg) ==
  LET options == IF TypeOf(arg) = "string" THEN Obj(<<Prop("url", arg)>>) ELSE arg
  IN  IF ~(Truthy(options) /\ Truthy(GetProp(options, "url")))
        THEN Rejected(CheckFailed("sdk", MsgUrl), arg)
        ELSE LET r == TrackSdk(t, options)
             IN  IF TypeOf(arg) = "string" THEN [r EXCEPT !.arg = arg] ELSE r

\* trackEvent handing track the caller's own mapping with ca set.
TrackEventSdkNoCopy(t, options) ==
  IF ~(Truthy(options) /\ Truthy(GetProp(options, "e_c"))
         /\ Truthy(GetProp(options, "e_a")))
    THEN Rejected(CheckFailed("sdk", MsgEvent), options)
    ELSE TrackSdk(t, SetProp(options, "ca", Num(Int2Num(1))))

\* src/src/index.ts: trackEvent(options)
TrackEventSdk(t, options) ==
  IF ~(Truthy(options) /\ Truthy(GetProp(options, "e_c"))
         /\ Truthy(GetProp(options, "e_a")))
    THEN Rejected(CheckFailed("sdk", MsgEvent), options)
    ELSE [TrackSdk(t, WithCustomAction(options)) EXCEPT !.arg = options]

\* src/src/index.ts: trackContent(options)
TrackContentSdk(t, options) ==
  IF ~(Truthy(options) /\ Truthy(GetProp(options, "c_n"))
         /\ Truthy(GetProp(options, "c_p")))
    THEN Rejected(CheckFailed("sdk", MsgContent), options)
    ELSE [TrackSdk(t, WithCustomAction(options)) EXCEPT !.arg = options]

\* trackBulk posting each item on its own.
TrackBulkSyncPerItem(i, t, eventItems) ==
  IF ~(Truthy(eventItems) /\ Len(eventItems.items) > 0)
    THEN Rejected(CheckFailed(i, MsgEvents), eventItems)
    ELSE LET items == [n \in 1..Len(eventItems.items) |->
                         InjectBase(eventItems.items[n], t.siteId)]
             frags == [n \in 1..Len(items) |-> "?" \o QueryString(items[n])]
         IN  [Dispatched(PostRequest(t.trackerUrl, BulkBody(frags)), Arr(items),
                         items)
                EXCEPT !.sent = [n \in 1..Len(items) |->
                                   PostRequest(t.trackerUrl, BulkBody(<<frags[n]>>))]]

\* trackBulk without the length check of its first assertion.
TrackBulkSyncNoLengthCheck(i, t, eventItems) ==
  IF ~Truthy(eventItems)
    THEN Rejected(CheckFailed(i, MsgEvents), eventItems)
    ELSE LET items == [n \in 1..Len(eventItems.items) |->
                         InjectBase(eventItems.items[n], t.siteId)]
             frags == [n \in 1..Len(items) |-> "?" \o QueryString(items[n])]
         IN  Dispatched(PostRequest(t.trackerUrl, BulkBody(frags)), Arr(items),
                        items)

\* trackBulk(eventItems) up to fetch, the same in both implementations.
TrackBulkSync(i, t, eventItems) ==
  IF ~(Truthy(eventItems) /\ Len(eventItems.items) > 0)
    THEN Rejected(CheckFailed(i, MsgEvents), eventItems)
    ELSE LET items == [n \in 1..Len(eventItems.items) |->
                         InjectBase(eventItems.items[n], t.siteId)]
             frags == [n \in 1..Len(items) |-> "?" \o QueryString(items[n])]
         IN  Dispatched(PostRequest(t.trackerUrl, BulkBody(frags)), Arr(items),
                        items)

(***************************************************************************)
(* The error event.  Listeners are called in the order they subscribed;    *)
(* a listener that throws ends the emission and emit throws its error.     *)
(***************************************************************************)
Listeners == {"L1", "L2"}
ThrowingListeners == {"L2"}
ListenerError == Error("Error", "listener failed")
CallbackError == Error("Error", "callback failed")

FirstThrower(ls) ==
  IF \E n \in 1..Len(ls) : ls[n] \in ThrowingListeners
    THEN CHOOSE n \in 1..Len(ls) :
           /\ ls[n] \in ThrowingListeners
           /\ \A m \in 1..(n - 1) : ls[m] \notin ThrowingListeners
    ELSE 0

\* this.emit('error', payload)
Emit(ls, payload) ==
  LET n == FirstThrower(ls)
  IN  [events |-> <<[payload |-> payload, subscribed |-> ls,
                     to |-> IF n = 0 THEN ls ELSE SubSeq(ls, 1, n)]>>,
       threw |-> n # 0]

\* if (this.listeners('error').length) { this.emit('error', payload); }
GuardedEmit(ls, payload) ==
  IF Len(ls) > 0 THEN Emit(ls, payload) ELSE [events |-> <<>>, threw |-> FALSE]

\* How an invocation ends: its promise resolves with a value or rejects.
Resolved(value, events) ==
  [pc |-> "resolved", result |-> value, error |-> NoError, events |-> events]

RejectedLate(error, events) ==
  [pc |-> "rejected", result |-> Undefined, error |-> error, events |-> events]

\* catch (err) { if (listeners) emit('error', err.message) }
CatchBlock(ls, err, before) ==
  LET e == GuardedEmit(ls, Str(err.message))
  IN  IF e.threw THEN RejectedLate(ListenerError, before \o e.events)
      ELSE Resolved(Undefined, before \o e.events)

Response(status) == [t |-> "object", k |-> "response", status |-> status]

\* Response.ok
Ok(response) == response.status >= 200 /\ response.status <= 299

\* if (!response.ok) { guarded emit of response.status; return; }
NotOkBranch(ls, response) ==
  LET e == GuardedEmit(ls, Num(Int2Num(response.status)))
  IN  IF e.threw THEN CatchBlock(ls, ListenerError, e.events)
      ELSE Resolved(Undefined, e.events)

(***************************************************************************)
(* Invocations.  calls[c] is the c-th invocation made on the tracker.      *)
(***************************************************************************)
Callbacks == {"none", "throws"}

NewCall(op, arg0, cb, out) ==
  [op |-> op, arg0 |-> arg0, arg |-> out.arg, cb |-> cb,
   pc |-> IF out.rejected THEN "rejected" ELSE "fetching",
   sent |-> out.sent, options |-> out.options, response |-> Undefined,
   failure |-> "", result |-> Undefined, error |-> out.error,
   events |-> <<>>, cbCalled |-> <<>>]

Finish(call, response, end) ==
  [call EXCEPT !.pc = end.pc, !.response = response, !.result = end.result,
               !.error = end.error, !.events = call.events \o end.events]

\* Arguments the operations are tried with.
Site == "http://mywebsite.com/"

TrackArgs ==
  { Undefined, Str(Site),
    Obj(<<>>),
    Obj(<<Prop("url", Str(""))>>),
    Obj(<<Prop("url", Str(Site))>>),
    Obj(<<Prop("idsite", Num(Int2Num(99))), Prop("url", Str("a b&idsite=7")),
          Prop("action_name", Undefined), Prop("rec", Num(Int2Num(0))),
          Prop("revenue", Num(Decimal(995, 100)))>>) }

EventArgs ==
  { Undefined,
    Obj(<<Prop("e_a", Str("rightButton"))>>),
    Obj(<<Prop("e_c", Str("Buy")), Prop("e_a", Str(""))>>),
    Obj(<<Prop("ca", Num(Int2Num(0))), Prop("e_c", Str("Buy")),
          Prop("e_a", Str("left Button")), Prop("e_n", Undefined),
          Prop("idsite", Str("9"))>>) }

ContentArgs ==
  { Obj(<<Prop("c_n", Str("Ad"))>>),
    Obj(<<Prop("c_n", Str("")), Prop("c_p", Str("/img/ad.png"))>>),
    Obj(<<Prop("c_n", Str("Ad Foo")), Prop("c_p", Str("/img/ad.png")),
          Prop("c_t", Undefined), Prop("ca", Num(Int2Num(0)))>>) }

BulkItems ==
  { Obj(<<Prop("_id", Str("AA814767")), Prop("e_c", Str("Buy")),
          Prop("e_a", Str("rightButton")), Prop("e_v", Str("2"))>>),
    Obj(<<Prop("rec", Num(Int2Num(0))), Prop("url", Str("a=b&rec=0")),
          Prop("uid", Undefined), Prop("idsite", Num(Int2Num(99)))>>) }

\* Batches: no argument, the empty batch, and the batches of up to MaxItems
\* items in which neighbours differ.
BulkArgs ==
  {Undefined} \cup
  { Arr(items) : items \in
      { b \in UNION { [1..n -> BulkItems] : n \in 0..MaxItems } :
          \A n \in 1..(Len(b) - 1) : b[n] # b[n + 1] } }

Statuses == {200, 404}
Failures == {"getaddrinfo ENOTFOUND example.com"}
Texts == {"{\"status\":\"success\",\"tracked\":1}"}

Invoke(op, arg, cb, out) ==
  /\ tracker.made
  /\ Len(calls) < MaxCalls
  /\ calls' = Append(calls, NewCall(op, arg, cb, out))
  /\ UNCHANGED <<impl, args, tracker, ctorError, listeners>>

Track(options) ==
  /\ impl \in Impls
  /\ Invoke("track", options, "none",
            IF impl = "port" THEN TrackPort(tracker, options)
            ELSE TrackSdk(tracker, options))

TrackUrl(options) ==
  /\ impl = "sdk"
  /\ Invoke("trackUrl", options, "none", TrackUrlSdk(tracker, options))

TrackEvent(options) ==
  /\ impl = "sdk"
  /\ Invoke("trackEvent", options, "none", TrackEventSdk(tracker, options))

TrackContent(options) ==
  /\ impl = "sdk"
  /\ Invoke("trackContent", options, "none", TrackContentSdk(tracker, options))

TrackBulk(eventItems, callback) ==
  /\ impl = "sdk" => callback = "none"
  /\ Invoke("trackBulk", eventItems, callback,
            TrackBulkSync(impl, tracker, eventItems))

\* The continuation of an invocation once fetch has a response.
AfterResponse(call, response) ==
  IF ~Ok(response) THEN Finish(call, response, NotOkBranch(listeners, response))
  ELSE IF impl = "port" /\ call.op = "trackBulk"
    THEN [call EXCEPT !.pc = "reading", !.response = response]
  ELSE Finish(call, response, Resolved(response, <<>>))

FetchResolves(c, status) ==
  /\ c \in 1..Len(calls)
  /\ calls[c].pc = "fetching"
  /\ calls' = [calls EXCEPT ![c] = AfterResponse(calls[c], Response(status))]
  /\ UNCHANGED <<impl, args, tracker, ctorError, listeners>>

FetchRejects(c, message) ==
  /\ c \in 1..Len(calls)
  /\ calls[c].pc = "fetching"
  /\ calls' = [calls EXCEPT ![c] =
                 [Finish(calls[c], Undefined,
                         CatchBlock(listeners, Error("TypeError", message), <<>>))
                    EXCEPT !.failure = message]]
  /\ UNCHANGED <<impl, args, tracker, ctorError, listeners>>

\* src/index.ts, trackBulk: const responseData = await response.text();
\* callback?.(responseData);
TextResolves(c, data) ==
  /\ c \in 1..Len(calls)
  /\ calls[c].pc = "reading"
  /\ LET call == calls[c]
         called == IF call.cb = "none" THEN <<>> ELSE <<data>>
         end == IF call.cb = "throws"
                  THEN CatchBlock(listeners, CallbackError, <<>>)
                  ELSE Resolved(Undefined, <<>>)
     IN  calls' = [calls EXCEPT ![c] =
                     [Finish(call, call.response, end) EXCEPT !.cbCalled = called]]
  /\ UNCHANGED <<impl, args, tracker, ctorError, listeners>>

TextRejects(c, message) ==
  /\ c \in 1..Len(calls)
  /\ calls[c].pc = "reading"
  /\ calls' = [calls EXCEPT ![c] =
                 [Finish(calls[c], calls[c].response,
                         CatchBlock(listeners, Error("TypeError", message), <<>>))
                    EXCEPT !.failure = message]]
  /\ UNCHANGED <<impl, args, tracker, ctorError, listeners>>

\* tracker.on('error', l)
On(l) ==
  /\ tracker.made
  /\ \A n \in 1..Len(listeners) : listeners[n] # l
  /\ listeners' = Append(listeners, l)
  /\ UNCHANGED <<impl, args, tracker, ctorError, calls>>

\* tracker.off('error', l)
Off(l) ==
  /\ \E n \in 1..Len(listeners) : listeners[n] = l
  /\ listeners' = SelectSeq(listeners, LAMBDA x : x # l)
  /\ UNCHANGED <<impl, args, tracker, ctorError, calls>>

\* The constructions the operations are run after.
TrackerArgs ==
  { CtorArgs(Str("42"), Str("http://example.com/matomo.php"), Undefined),
    CtorArgs(Num(Int2Num(1)), Str("http://example.com/index.php"), Undefined) }

Init == InitNew

Next ==
  \/ \E a \in TrackerArgs : New(a.siteId, a.trackerUrl, a.noURLValidation)
  \/ \E options \in TrackArgs : Track(options)
  \/ \E options \in TrackArgs : TrackUrl(options)
  \/ \E options \in EventArgs : TrackEvent(options)
  \/ \E options \in ContentArgs : TrackContent(options)
  \/ \E eventItems \in BulkArgs, callback \in Callbacks :
       TrackBulk(eventItems, callback)
  \/ \E c \in 1..MaxCalls, status \in Statuses : FetchResolves(c, status)
  \/ \E c \in 1..MaxCalls, message \in Failures : FetchRejects(c, message)
  \/ \E c \in 1..MaxCalls, data \in Texts : TextResolves(c, data)
  \/ \E c \in 1..MaxCalls, message \in Failures : TextRejects(c, message)
  \/ \E l \in Listeners : On(l)
  \/ \E l \in Listeners : Off(l)

Spec == Init /\ [][Next]_vars

(***************************************************************************)
(* A method called again on the same tracker, while the earlier invocation *)
(* is pending or after it has settled.                                     *)
(***************************************************************************)
\* The synchronous part of operation op on argument arg.
SyncPart(op, arg) ==
  CASE op = "track"        -> IF impl = "port" THEN TrackPort(tracker, arg)
                              ELSE TrackSdk(tracker, arg)
    [] op = "trackUrl"     -> TrackUrlSdk(tracker, arg)
    [] op = "trackEvent"   -> TrackEventSdk(tracker, arg)
    [] op = "trackContent" -> TrackContentSdk(tracker, arg)
    [] op = "trackBulk"    -> TrackBulkSync(impl, tracker, arg)

\* The method of invocation c is not run again while an invocation with the
\* same argument is pending.
AgainDeduplicated(c, sameObject) ==
  /\ c \in 1..Len(calls)
  /\ Len(calls) < MaxCalls + 1
  /\ LET first == calls[c]
         arg   == IF sameObject THEN first.arg ELSE first.arg0
         out   == SyncPart(first.op, arg)
     IN  calls' = Append(calls,
                    IF first.pc = "fetching"
                      THEN [first EXCEPT !.arg0 = arg, !.sent = <<>>,
                                         !.options = <<>>]
                      ELSE NewCall(first.op, arg, first.cb, out))
  /\ UNCHANGED <<impl, args, tracker, ctorError, listeners>>

\* The caller calls the method of invocation c once more: with an argument
\* equal to the one given then, or with the very object given then, as that
\* invocation left it.
Again(c, sameObject) ==
  /\ c \in 1..Len(calls)
  /\ Len(calls) < MaxCalls + 1
  /\ LET first == calls[c]
         arg   == IF sameObject THEN first.arg ELSE first.arg0
     IN  calls' = Append(calls, NewCall(first.op, arg, first.cb,
                                        SyncPart(first.op, arg)))
  /\ UNCHANGED <<impl, args, tracker, ctorError, listeners>>

NextAgain ==
  \/ \E a \in TrackerArgs : New(a.siteId, a.trackerUrl, a.noURLValidation)
  \/ \E options \in TrackArgs : Track(options)
  \/ \E options \in TrackArgs : TrackUrl(options)
  \/ \E options \in EventArgs : TrackEvent(options)
  \/ \E options \in ContentArgs : TrackContent(options)
  \/ \E eventItems \in BulkArgs, callback \in Callbacks :
       TrackBulk(eventItems, callback)
  \/ \E c \in 1..MaxCalls, sameObject \in BOOLEAN : Again(c, sameObject)
  \/ \E c \in 1..(MaxCalls + 1), status \in Statuses : FetchResolves(c, status)
  \/ \E c \in 1..(MaxCalls + 1), message \in Failures : FetchRejects(c, message)
  \/ \E c \in 1..(MaxCalls + 1), data \in Texts : TextResolves(c, data)
  \/ \E c \in 1..(MaxCalls + 1), message \in Failures : TextRejects(c, message)

SpecAgain == Init /\ [][NextAgain]_vars

(***************************************************************************)
(* The wire as the server reads it: a query string split at "&" and "=",   *)
(* names and values decoded.                                               *)
(***************************************************************************)
RECURSIVE SplitOn(_, _)
SplitOn(s, c) ==
  LET i == IndexOf(s, c)
  IN  IF i = 0 THEN <<s>>
      ELSE <<SubSeq(s, 1, i - 1)>> \o SplitOn(SubSeq(s, i + 1, Len(s)), c)

RECURSIVE FormDecode(_)
FormDecode(s) ==
  IF s = "" THEN ""
  ELSE IF Head(s) = "+" THEN " " \o FormDecode(Tail(s))
  ELSE IF Head(s) = "%" /\ Len(s) >= 3
            /\ \E i \in 1..Len(Escapes) : Escapes[i][2] = SubSeq(s, 1, 3)
    THEN Escapes[CHOOSE i \in 1..Len(Escapes) : Escapes[i][2] = SubSeq(s, 1, 3)][1]
           \o FormDecode(SubSeq(s, 4, Len(s)))
  ELSE Head(s) \o FormDecode(Tail(s))

ParsePair(piece) ==
  LET i == IndexOf(piece, "=")
  IN  IF i = 0 THEN [k |-> FormDecode(piece), v |-> "", eq |-> FALSE]
      ELSE [k |-> FormDecode(SubSeq(piece, 1, i - 1)),
            v |-> FormDecode(SubSeq(piece, i + 1, Len(piece))), eq |-> TRUE]

ParseQuery(q) ==
  IF q = "" THEN <<>>
  ELSE LET pieces == SplitOn(q, "&")
       IN  [n \in 1..Len(pieces) |-> ParsePair(pieces[n])]

\* The fragments of a bulk body, each without its quotes.
BodyFragments(body) ==
  LET pre   == "{\"requests\":["
      inner == SubSeq(body, Len(pre) + 1, Len(body) - 2)
      parts == IF inner = "" THEN <<>> ELSE SplitOn(inner, ",")
  IN  [n \in 1..Len(parts) |-> SubSeq(parts[n], 2, Len(parts[n]) - 1)]

\* The query strings one request carries: the part of a GET's URL after
\* "<endpoint>?", or each fragment of a POST's body after its "?".
WireQueries(request) ==
  IF request.method = "GET"
    THEN <<SubSeq(request.url, Len(tracker.trackerUrl) + 2, Len(request.url))>>
    ELSE LET f == BodyFragments(request.body)
         IN  [n \in 1..Len(f) |-> Tail(f[n])]

Named(pairs, key) == { n \in 1..Len(pairs) : pairs[n].k = key }

Settled(call) == call.pc \in {"resolved", "rejected"}

(***************************************************************************)
(* Claims about the constructor, checked under SpecNew.                    *)
(***************************************************************************)

\* C1: a construction whose site identifier is missing, null or of a type
\* other than number or string makes no tracker and throws an error whose
\* message names siteId, whatever the endpoint and the bypass flag are.
C1_BadSiteIdTypeFails ==
  (args.given /\ TypeOf(args.siteId) \notin {"number", "string"})
    => (~tracker.made /\ Contains(ctorError.message, "siteId"))

C1_Witness ==
  /\ args.given
  /\ args.siteId = Bool(TRUE)
  /\ args.trackerUrl = Str("http://example.com/matomo.php")
  /\ Truthy(args.noURLValidation)
  /\ ~tracker.made
  /\ Contains(ctorError.message, "siteId")

\* A site identifier the constructor accepts: a number other than 0 and NaN,
\* or a non-empty string.
ValidSiteId(v) ==
  \/ TypeOf(v) = "number" /\ ~v.n.nan /\ v.n.num # 0
  \/ TypeOf(v) = "string" /\ Len(v.s) > 0

NonEmptyString(v) == TypeOf(v) = "string" /\ Len(v.s) > 0

\* C2: with a valid site identifier, construction succeeds exactly when the
\* endpoint is a non-empty string and the bypass flag is truthy or the
\* endpoint ends with "matomo.php" or "piwik.php"; an endpoint that is no
\* non-empty string fails with a tracker-URL error even when the flag is set.
C2_EndpointDecides ==
  (args.given /\ ValidSiteId(args.siteId))
    => /\ tracker.made <=>
            /\ NonEmptyString(args.trackerUrl)
            /\ \/ Truthy(args.noURLValidation)
               \/ EndsWith(args.trackerUrl.s, "matomo.php")
               \/ EndsWith(args.trackerUrl.s, "piwik.php")
       /\ ~tracker.made => Contains(ctorError.message, "tracker URL")
       /\ tracker.made => ctorError = NoError

C2_Witness ==
  /\ args.given
  /\ ValidSiteId(args.siteId)
  /\ args.noURLValidation = Bool(TRUE)
  /\ args.trackerUrl = Str("")
  /\ ~tracker.made
  /\ Contains(ctorError.message, "tracker URL")

\* C4: every constructed tracker's siteId is a positive integer.
C4_SiteIdPositiveInteger ==
  tracker.made => IsPositiveInteger(tracker.siteId)

(***************************************************************************)
(* Claims about the operations, checked under Spec.                        *)
(***************************************************************************)

\* C3: after a successful construction the tracker's siteId is Number() of
\* the site identifier given and its trackerUrl is the endpoint given, and
\* this stays so through every invocation, whatever its outcome.
C3_FieldsKept ==
  tracker.made
    => /\ tracker.siteId = ToNumber(args.siteId)
       /\ args.siteId = Str("42") => tracker.siteId = Int2Num(42)
       /\ tracker.trackerUrl = args.trackerUrl.s

C3_Witness ==
  /\ tracker.made
  /\ args.siteId = Str("42")
  /\ \E c \in 1..Len(calls) :
       /\ calls[c].pc = "rejected"
       /\ calls[c].sent # <<>>
       /\ calls[c].events # <<>>

\* No URL can be determined from the argument of track.
NoUrl(arg) ==
  \/ arg = Undefined
  \/ IsObj(arg) /\ ~Truthy(GetProp(arg, "url"))

\* C5: a track call from which no URL can be determined rejects with an
\* error about the URL and hands nothing to fetch.
C5_TrackWithoutUrlRejects ==
  \A c \in 1..Len(calls) :
    (calls[c].op = "track" /\ NoUrl(calls[c].arg0))
      => /\ calls[c].pc = "rejected"
         /\ Contains(calls[c].error.message, "URL")
         /\ calls[c].sent = <<>>

\* C6: track(s) for a non-empty string s hands fetch exactly one GET of
\* <endpoint>?url=<s encoded>&idsite=<siteId>&rec=1, as track({url: s})
\* does, and does not reject.
C6_TrackStringIsUrl ==
  \A c \in 1..Len(calls) :
    (calls[c].op = "track" /\ NonEmptyString(calls[c].arg0))
      => /\ calls[c].pc # "rejected"
         /\ calls[c].sent =
              <<GetRequest(tracker.trackerUrl \o "?url=" \o FormEncode(calls[c].arg0.s)
                             \o "&idsite=" \o NumberToString(tracker.siteId)
                             \o "&rec=1")>>

\* The step hands requests of invocation c to fetch: c is new, or its
\* requests changed.
Sends(c) ==
  /\ c \in 1..Len(calls')
  /\ calls'[c].sent # <<>>
  /\ c \in 1..Len(calls) => calls'[c].sent # calls[c].sent

BaseFieldsOnWire(call) ==
  \A r \in 1..Len(call.sent) :
    LET qs == WireQueries(call.sent[r])
    IN  \A n \in 1..Len(qs) :
          LET pairs == ParseQuery(qs[n])
          IN  /\ Cardinality(Named(pairs, "idsite")) = 1
              /\ Cardinality(Named(pairs, "rec")) = 1
              /\ \A m \in Named(pairs, "idsite") :
                   pairs[m].v = NumberToString(tracker.siteId)
              /\ \A m \in Named(pairs, "rec") : pairs[m].v = "1"

\* C7: every query string handed to fetch (the query of a GET, each fragment
\* of a bulk POST) names idsite exactly once, with the tracker's siteId, and
\* rec exactly once, with 1, whatever the caller's mapping held.
C7_BaseFieldsOnWire ==
  [][\A c \in 1..MaxCalls : Sends(c) => BaseFieldsOnWire(calls'[c])]_vars

\* An invocation whose caller supplied its own idsite and rec, sent.
C7_Witness ==
  \E c \in 1..Len(calls) :
    /\ calls[c].op = "trackBulk"
    /\ calls[c].sent # <<>>
    /\ \E n \in 1..Len(calls[c].arg0.items) :
         /\ GetProp(calls[c].arg0.items[n], "idsite") = Num(Int2Num(99))
         /\ GetProp(calls[c].arg0.items[n], "rec") = Num(Int2Num(0))

AbsentOmitted(call) ==
  \A r \in 1..Len(call.sent) :
    LET qs == WireQueries(call.sent[r])
    IN  /\ Len(qs) = Len(call.options)
        /\ \A n \in 1..Len(qs) :
             LET pairs == ParseQuery(qs[n])
                 props == call.options[n].props
             IN  /\ \A i \in 1..Len(props) :
                       IF props[i].v = Undefined
                         THEN Named(pairs, props[i].k) = {}
                         ELSE /\ Cardinality(Named(pairs, props[i].k)) = 1
                              /\ \A m \in Named(pairs, props[i].k) :
                                   /\ pairs[m].eq
                                   /\ pairs[m].v = JsString(props[i].v)
                 /\ \A m \in 1..Len(pairs) :
                       \E i \in 1..Len(props) : props[i].k = pairs[m].k

\* C8: the query string of a serialized mapping holds no pair for a key whose
\* value is undefined, exactly one pair for every other key, carrying
\* String() of its value, and no pair for anything else.
C8_AbsentOmitted ==
  [][\A c \in 1..MaxCalls : Sends(c) => AbsentOmitted(calls'[c])]_vars

\* A batch of two mappings sent by trackBulk, one with an undefined entry.
C8_Witness ==
  \E c \in 1..Len(calls) :
    /\ calls[c].op = "trackBulk"
    /\ calls[c].sent # <<>>
    /\ Len(calls[c].options) = 2
    /\ \E n \in 1..Len(calls[c].options) :
         /\ HasProp(calls[c].options[n], "uid")
         /\ GetProp(calls[c].options[n], "uid") = Undefined

\* The step in which the network call of invocation c ends in a delivery
\* failure: a response that is not ok, or a transport failure.
DeliveryFails(c) ==
  /\ c \in 1..Len(calls)
  /\ ~Settled(calls[c])
  /\ Settled(calls'[c])
  /\ \/ calls'[c].failure # ""
     \/ calls'[c].response # Undefined /\ ~Ok(calls'[c].response)

\* C9: when the network call of an invocation ends in a delivery failure, an
\* error event is emitted exactly if a listener is subscribed then, the event
\* carries the status code (not ok) or the failure's message (transport),
\* and the invocation resolves with no value.
C9_FailureEmitsIfListened ==
  [][\A c \in 1..MaxCalls :
       DeliveryFails(c)
         => /\ (calls'[c].events # <<>>) <=> (listeners # <<>>)
            /\ \A e \in 1..Len(calls'[c].events) :
                 calls'[c].events[e].payload =
                   IF calls'[c].failure # "" THEN Str(calls'[c].failure)
                   ELSE Num(Int2Num(calls'[c].response.status))
            /\ calls'[c].pc = "resolved"
            /\ calls'[c].result = Undefined]_vars

\* C10: a trackBulk invocation whose POST got an ok response resolves with
\* that response, and one whose POST got a response that is not ok, or
\* failed in transport, resolves with no value, in both implementations.
C10_BulkResolvesLikeTrack ==
  \A c \in 1..Len(calls) :
    (calls[c].op = "trackBulk" /\ Settled(calls[c]) /\ calls[c].sent # <<>>)
      => /\ calls[c].pc = "resolved"
         /\ calls[c].result =
              IF calls[c].failure = "" /\ Ok(calls[c].response)
                THEN calls[c].response ELSE Undefined

\* No batch: trackBulk() or trackBulk([]).
NoBatch(arg) == arg = Undefined \/ (IsArr(arg) /\ Len(arg.items) = 0)

\* C11: a trackBulk call given no argument or an empty sequence rejects with
\* the error of the events check and hands nothing to fetch, in every later
\* state too.
C11_EmptyBulkRejects ==
  \A c \in 1..Len(calls) :
    (calls[c].op = "trackBulk" /\ NoBatch(calls[c].arg0))
      => /\ calls[c].pc = "rejected"
         /\ Contains(calls[c].error.message, MsgEvents)
         /\ calls[c].sent = <<>>

\* trackBulk([]) on a tracker with a listener: rejected, nothing sent, no event.
C11_Witness ==
  /\ listeners # <<>>
  /\ \E c \in 1..Len(calls) :
       /\ calls[c].op = "trackBulk"
       /\ calls[c].arg0 = Arr(<<>>)
       /\ calls[c].pc = "rejected"
       /\ calls[c].sent = <<>>
       /\ calls[c].events = <<>>

\* The body of a bulk request as the claim describes it, read back from the
\* JSON text: one fragment per item of the batch, fragment n being "?" and
\* the query string of item n with idsite and rec set.
BulkBodyAsClaimed(call) ==
  LET request == call.sent[1]
      items   == call.arg0.items
      frags   == BodyFragments(request.body)
  IN  /\ Len(call.sent) = 1
      /\ request.method = "POST"
      /\ request.url = tracker.trackerUrl
      /\ request.contentType = "application/json"
      /\ StartsWith(request.body, "{\"requests\":[\"")
      /\ EndsWith(request.body, "\"]}")
      /\ Len(frags) = Len(items)
      /\ \A n \in 1..Len(items) :
           /\ frags[n] = "?" \o QueryString(InjectBase(items[n], tracker.siteId))
           /\ LET pairs == ParseQuery(Tail(frags[n]))
                  kept  == DefinedProps(InjectBase(items[n], tracker.siteId).props)
              IN  /\ Len(pairs) = Len(kept)
                  /\ \A m \in 1..Len(kept) : pairs[m].k = kept[m].k

\* C12: the body trackBulk posts for a batch of n mappings is the JSON object
\* with the one field requests, holding n fragments in the order of the
\* batch, fragment n being "?" and the serialization of mapping n with idsite
\* and rec set.
C12_BulkBodyInOrder ==
  [][\A c \in 1..MaxCalls :
       (Sends(c) /\ calls'[c].op = "trackBulk") => BulkBodyAsClaimed(calls'[c])]_vars

\* A batch of two different mappings, posted.
C12_Witness ==
  \E c \in 1..Len(calls) :
    /\ calls[c].op = "trackBulk"
    /\ calls[c].sent # <<>>
    /\ Len(calls[c].arg0.items) = MaxItems
    /\ calls[c].arg0.items[1] # calls[c].arg0.items[2]
    /\ Len(BodyFragments(calls[c].sent[1].body)) = MaxItems

\* The step makes invocation c.
Invoked(c) == c \notin 1..Len(calls) /\ c \in 1..Len(calls')

\* One of the two fields an operation requires is missing or falsy.
Lacks(arg, first, second) ==
  \/ ~IsObj(arg)
  \/ ~Truthy(GetProp(arg, first))
  \/ ~Truthy(GetProp(arg, second))

\* What trackEvent or trackContent does with a mapping whose required fields
\* are first and second.
CustomActionAsClaimed(call, first, second, message) ==
  IF Lacks(call.arg0, first, second)
    THEN /\ call.pc = "rejected"
         /\ call.sent = <<>>
         /\ Contains(call.error.message, message)
    ELSE /\ call.pc = "fetching"
         /\ call.sent =
              TrackSdk(tracker, SetProp(call.arg0, "ca", Num(Int2Num(1)))).sent
         /\ Len(call.sent) = 1
         /\ call.sent[1].method = "GET"
         /\ LET pairs == ParseQuery(WireQueries(call.sent[1])[1])
            IN  /\ Cardinality(Named(pairs, "ca")) = 1
                /\ \A m \in Named(pairs, "ca") : pairs[m].v = "1"
                /\ \A m \in Named(pairs, first) :
                     pairs[m].v = JsString(GetProp(call.arg0, first))
                /\ \A m \in Named(pairs, second) :
                     pairs[m].v = JsString(GetProp(call.arg0, second))
                /\ Named(pairs, first) # {} /\ Named(pairs, second) # {}

\* C13: trackEvent without a truthy e_c and e_a, and trackContent without a
\* truthy c_n and c_p, reject and hand nothing to fetch; otherwise each hands
\* fetch the one GET that track hands it for the same mapping with ca set to
\* 1, whatever ca the caller gave.
C13_CustomActionForced ==
  [][\A c \in 1..MaxCalls :
       /\ (Invoked(c) /\ calls'[c].op = "trackEvent")
            => CustomActionAsClaimed(calls'[c], "e_c", "e_a", MsgEvent)
       /\ (Invoked(c) /\ calls'[c].op = "trackContent")
            => CustomActionAsClaimed(calls'[c], "c_n", "c_p", MsgContent)]_vars

\* trackEvent with a caller-supplied ca of 0, sent.
C13_Witness ==
  \E c \in 1..Len(calls) :
    /\ calls[c].op = "trackEvent"
    /\ GetProp(calls[c].arg0, "ca") = Num(Int2Num(0))
    /\ calls[c].sent # <<>>
    /\ Contains(calls[c].sent[1].url, "ca=1")

\* The invocation got past the checks made before fetch.
Dispatches(call) == ~(call.pc = "rejected" /\ call.response = Undefined
                        /\ call.failure = "" /\ call.events = <<>>
                        /\ call.cbCalled = <<>>)

\* One network call per invocation, of the method of its operation.
OneNetworkCall(call) ==
  /\ Len(call.sent) <= 1
  /\ Dispatches(call) => Len(call.sent) = 1
  /\ \A r \in 1..Len(call.sent) :
       call.sent[r].method = IF call.op = "trackBulk" THEN "POST" ELSE "GET"
  /\ (Settled(call) /\ call.sent # <<>>)
       => (call.response # Undefined \/ call.failure # "")

\* C14: an invocation that gets past its checks hands fetch exactly one
\* request, a GET (a POST for trackBulk, whatever the size of the batch); its
\* promise settles only once that request has a response or has failed, and
\* the requests of an invocation never change afterwards: nothing is sent
\* again.
C14_OneCallNoRetry ==
  /\ [](\A c \in 1..Len(calls) : OneNetworkCall(calls[c]))
  /\ [][\A c \in 1..Len(calls) :
          /\ calls'[c].sent = calls[c].sent
          /\ Settled(calls[c]) => calls'[c] = calls[c]]_vars

\* A batch of several mappings whose one POST failed in transport, settled.
C14_Witness ==
  \E c \in 1..Len(calls) :
    /\ calls[c].op = "trackBulk"
    /\ IsArr(calls[c].arg0)
    /\ Len(calls[c].arg0.items) > 1
    /\ Len(calls[c].sent) = 1
    /\ calls[c].failure # ""
    /\ Settled(calls[c])

\* C15: an invocation that rejects has handed nothing to fetch, and an
\* invocation that has handed a request to fetch and is settled has resolved.
C15_RejectsOnlyBeforeIO ==
  \A c \in 1..Len(calls) :
    /\ calls[c].pc = "rejected" => calls[c].sent = <<>>
    /\ (calls[c].sent # <<>> /\ Settled(calls[c])) => calls[c].pc = "resolved"

\* C16: the error events an invocation gains in a step are delivered to
\* exactly the listeners subscribed in that step's starting state, events
\* already recorded are never delivered again or changed, and a settled
\* invocation gains no event, whoever subscribes later.
C16_ErrorChannelUnbuffered ==
  [][\A c \in 1..Len(calls) :
       LET old == calls[c].events
           new == calls'[c].events
       IN  /\ Len(new) >= Len(old)
           /\ SubSeq(new, 1, Len(old)) = old
           /\ \A e \in (Len(old) + 1)..Len(new) :
                /\ new[e].subscribed = listeners
                /\ new[e].to = listeners
           /\ Settled(calls[c]) => new = old]_vars

\* C18: a track or trackBulk invocation has at most one error event, and has
\* one only if its network call got a response that is not ok or failed in
\* transport.
C18_AtMostOneErrorEvent ==
  \A c \in 1..Len(calls) :
    calls[c].op \in {"track", "trackBulk"}
      => /\ Len(calls[c].events) <= 1
         /\ calls[c].events # <<>>
              => \/ calls[c].failure # ""
                 \/ calls[c].response # Undefined /\ ~Ok(calls[c].response)

\* The keys of a mapping, in order.
Keys(o) == [n \in 1..Len(o.props) |-> o.props[n].k]

\* after is before with idsite and rec set to the tracker's siteId and 1 and
\* nothing else changed: the other keys keep their values and their order.
OnlyBaseChanged(before, after) ==
  /\ IsObj(after)
  /\ GetProp(after, "idsite") = Num(tracker.siteId)
  /\ GetProp(after, "rec") = Num(Int2Num(1))
  /\ SelectSeq(after.props, LAMBDA p : p.k \notin {"idsite", "rec"})
       = SelectSeq(before.props, LAMBDA p : p.k \notin {"idsite", "rec"})
  /\ \A n \in 1..Len(before.props) : HasProp(after, before.props[n].k)
  /\ Len(after.props) =
       Len(before.props) + Cardinality({"idsite", "rec"} \ {before.props[n].k :
                                                             n \in 1..Len(before.props)})

\* The caller's argument after the call, against the argument as given.
CallerInputAsClaimed(call) ==
  IF call.sent = <<>> \/ call.op \in {"trackEvent", "trackContent"}
       \/ ~(IsObj(call.arg0) \/ IsArr(call.arg0))
    THEN call.arg = call.arg0
  ELSE IF call.op = "trackBulk"
    THEN /\ IsArr(call.arg)
         /\ Len(call.arg.items) = Len(call.arg0.items)
         /\ \A n \in 1..Len(call.arg0.items) :
              OnlyBaseChanged(call.arg0.items[n], call.arg.items[n])
  ELSE OnlyBaseChanged(call.arg0, call.arg)

\* C19: track, trackUrl and trackBulk change in the caller's mapping, or in
\* each mapping of the batch, only idsite and rec, which become the tracker's
\* siteId and 1; trackEvent and trackContent leave the caller's mapping as it
\* was; a call rejected before fetch leaves its argument as it was; and this
\* stays so in every later state of the invocation.
C19_CallerInputFrame ==
  \A c \in 1..Len(calls) : CallerInputAsClaimed(calls[c])

\* trackEvent sent with the caller's ca of 0 still in the caller's mapping.
C19_Witness ==
  \E c \in 1..Len(calls) :
    /\ calls[c].op = "trackEvent"
    /\ calls[c].sent # <<>>
    /\ Settled(calls[c])
    /\ GetProp(calls[c].arg, "ca") = Num(Int2Num(0))
    /\ ~HasProp(calls[c].arg, "rec")

(***************************************************************************)
(* Claims about repeated invocations, checked under SpecAgain.             *)
(***************************************************************************)

\* Invocation d was given what invocation c was given: an equal argument, or
\* the object of c as c left it.
SameInput(c, d) ==
  /\ calls[d].op = calls[c].op
  /\ calls[d].arg0 \in {calls[c].arg0, calls[c].arg}

\* C17: an invocation given the input of an earlier one, made while the
\* earlier one is pending or after it has settled, hands fetch its own
\* request, equal in method, URL and body to the earlier one's, or rejects
\* with the same error if the earlier one was rejected before fetch; what the
\* earlier invocation did to the caller's object, and whether it is still
\* pending, changes nothing.
C17_CallsIndependent ==
  \A c \in 1..Len(calls) : \A d \in (c + 1)..Len(calls) :
    SameInput(c, d)
      => /\ calls[d].sent = calls[c].sent
         /\ Len(calls[d].sent) = Len(calls[c].sent)
         /\ (calls[c].sent = <<>>) => (calls[d].pc = "rejected"
                                         /\ calls[d].error = calls[c].error)
         /\ calls[d].arg = calls[c].arg

\* track called twice with the very same object, both invocations pending:
\* the second was given the object holding the first's idsite and rec.
C17_Witness ==
  /\ Len(calls) = 2
  /\ calls[1].op = "track"
  /\ calls[1].pc = "fetching"
  /\ calls[2].pc = "fetching"
  /\ calls[2].arg0 = calls[1].arg
  /\ calls[2].arg0 # calls[1].arg0
  /\ GetProp(calls[1].arg0, "idsite") = Num(Int2Num(99))
  /\ calls[2].sent = calls[1].sent
  /\ calls[2].sent # <<>>

====
